---------------------------- MODULE Spec2Model ----------------------------
(***************************************************************************)
(* A model of the stand-alone driver 'main.c' of the SAT solver 'satch':   *)
(* the DIMACS parser ('next', 'parse'), the witness pretty printer         *)
(* ('print_value', 'flush_printed_values'), the signal handling            *)
(* ('init_signal_handler', 'catch_signal', 'reset_signal_handler') and the *)
(* sequence of 'main' with its option parsing.                             *)
(*                                                                         *)
(* Bytes are one-character strings and a byte stream is a tuple of them.   *)
(* The value EOF stands for the result of 'getc' at end-of-file.           *)
(***************************************************************************)
EXTENDS Integers, Sequences, FiniteSets, TLC

VARIABLES
  file,               \* the bytes of the input stream known so far
  pos,                \* number of bytes of 'file' consumed by 'getc'
  tail,               \* number of bytes the environment appended to 'file'
  eofseen,            \* 'getc' has returned EOF
  close_file,         \* 0=no-close, 1=fclose, 2=pclose
  released,           \* the calls that closed the stream, in order
  lineno,             \* line number for parse error messages
  bytes,              \* read bytes for verbose message
  pc,                 \* position of the main sequence (inside 'main' and 'parse')
  ch,                 \* 'ch' of 'parse': result of the last 'next ()'
  mi,                 \* index into the expected bytes " cnf " after 'p'
  variables,          \* static int variables
  specified_clauses,  \* size_t specified_clauses (four 16-bit limbs)
  parsed_clauses,     \* size_t parsed_clauses
  lit,                \* int lit
  sign,               \* int sign
  added,              \* the values passed to 'satch_add', in order
  ovf,                \* some accumulation left the range of its type
  err,                \* message of 'error' / 'parse_error', "" if none
  exitcode,           \* -1 while running, else the status given to 'exit'
  quiet,              \* static bool quiet
  witness,            \* bool witness of 'main'
  solver,             \* "null", "init" or "released"
  res,                \* result of 'satch_solve'
  vals,               \* sign pattern of the engine's assignment
  idx,                \* 'i' of the witness loop in 'main'
  buffer,             \* static char buffer[80], its first 'size_buffer' bytes
  size_buffer,        \* static size_t size_buffer
  out,                \* the 'v' lines written to 'stdout'
  printed,            \* the values given to 'print_value', in order
  handler,            \* current disposition of every watched signal
  saved,              \* saved_SIG_handler
  caught_signal,      \* static volatile int caught_signal
  si,                 \* position of 'main' in the list SIGNALS
  frames,             \* stack of running 'catch_signal' invocations
  pending,            \* blocked signals waiting for delivery
  delivered,          \* number of signals the environment has sent
  bsd,                \* 'signal' has BSD semantics (else System V)
  killed,             \* 0, or the signal that terminated the process
  diag,               \* how often the 'caught signal' diagnostics were printed
  argv,               \* the command line arguments behind the program name
  argi,               \* 'i' of the argument loop of 'main' (argv[0] not counted)
  path,               \* static const char *path: <<>> if NULL, else <<name>>
  verbose,            \* static int verbose
  logging,            \* bool logging of 'main'
  ndebug              \* the program is compiled with NDEBUG

streamVars == <<file, pos, tail, eofseen, lineno, bytes, ch>>
fileVars   == <<close_file, released>>
parseVars  == <<mi, variables, specified_clauses, parsed_clauses, lit, sign,
                added, ovf>>
ctlVars    == <<pc, err, exitcode>>
cfgVars    == <<quiet, witness, bsd, argv, argi, path, verbose, logging,
                ndebug>>
engVars    == <<solver, res, vals>>
printVars  == <<idx, buffer, size_buffer, out, printed>>
sigVars    == <<handler, saved, caught_signal, si, frames, pending,
                delivered, killed, diag>>
vars == <<streamVars, fileVars, parseVars, ctlVars, cfgVars, engVars,
          printVars, sigVars>>

---------------------------------------------------------------------------
(* Bounds of the model.                                                    *)

MaxTail == 2          \* bytes the environment may append to the chosen prefix
MaxTokens == 2        \* literals in the body of a chosen prefix
MaxWitnessVars == 30  \* the engine answers SATISFIABLE up to that many variables
MaxCalls == 8         \* calls of the witness printer with arbitrary values
MaxArgs == 3          \* command line arguments behind the program name
MaxDeliveries == 2    \* signals the environment sends

---------------------------------------------------------------------------
(* Program constants.                                                      *)

INT_MAX == 2147483647
INT_MIN == -2147483647 - 1
LimbBase == 256 * 256
SATISFIABLE == 10
UNSATISFIABLE == 20
UNKNOWN == 0
BufferCapacity == 80
LineBudget == 77

EOF == "EOF"

\* The name of an input file, as an argument: its characters.
FileName == <<"a">>
Digit == {"0", "1", "2", "3", "4", "5", "6", "7", "8", "9"}

isdigit(c) == c \in Digit

DigitVal(c) ==
  CASE c = "0" -> 0 [] c = "1" -> 1 [] c = "2" -> 2 [] c = "3" -> 3
    [] c = "4" -> 4 [] c = "5" -> 5 [] c = "6" -> 6 [] c = "7" -> 7
    [] c = "8" -> 8 [] c = "9" -> 9

DigitChar(d) == <<"0", "1", "2", "3", "4", "5", "6", "7", "8", "9">>[d + 1]

abs(x) == IF x < 0 THEN -x ELSE x

---------------------------------------------------------------------------
(* 32-bit 'int' arithmetic.  The products and sums of the parser are       *)
(* guarded; the wrapped result below is what an unguarded one would leave. *)

\* (x * 10) modulo 2^32 as a signed value, for 0 <= x <= INT_MAX.
Mul10Wrap(x) ==
  LET q  == x \div LimbBase
      r  == x % LimbBase
      lo == (r * 10) % LimbBase
      hi == (q * 10 + (r * 10) \div LimbBase) % LimbBase
  IN  IF hi >= 32768 THEN (hi - LimbBase) * LimbBase + lo
      ELSE hi * LimbBase + lo

\* (x + d) modulo 2^32 as a signed value, for 0 <= d <= 9.
AddWrap(x, d) ==
  IF x > INT_MAX - d THEN INT_MIN + (d - (INT_MAX - x) - 1) ELSE x + d

\* The exact product x * 10 does not fit an 'int'.
MulOverflows(x) == x < 0 \/ x > INT_MAX \div 10

\* The exact sum x + d does not fit an 'int'.
AddOverflows(x, d) == x > INT_MAX - d

---------------------------------------------------------------------------
(* 64-bit 'size_t' arithmetic on four 16-bit limbs, most significant first.*)

U64OfInt(n) == <<0, 0, n \div LimbBase, n % LimbBase>>

MAX_SIZE_T == <<65535, 65535, 65535, 65535>>

U64Less(a, b) ==
  \E i \in 1..4 : a[i] < b[i] /\ \A j \in 1..(i - 1) : a[j] = b[j]

\* (x * m + d) modulo 2^64, for small m and d.
U64MulAdd(x, m, d) ==
  LET t4 == x[4] * m + d
      t3 == x[3] * m + t4 \div LimbBase
      t2 == x[2] * m + t3 \div LimbBase
      t1 == x[1] * m + t2 \div LimbBase
  IN  <<t1 % LimbBase, t2 % LimbBase, t3 % LimbBase, t4 % LimbBase>>

\* The exact value of x * m + d does not fit 64 bits.
U64MulAddOverflows(x, m, d) ==
  LET t4 == x[4] * m + d
      t3 == x[3] * m + t4 \div LimbBase
      t2 == x[2] * m + t3 \div LimbBase
      t1 == x[1] * m + t2 \div LimbBase
  IN  t1 >= LimbBase

\* x / d (quotient) for a small d > 0.
U64Div(x, d) ==
  LET c1 == x[1]
      c2 == (c1 % d) * LimbBase + x[2]
      c3 == (c2 % d) * LimbBase + x[3]
      c4 == (c3 % d) * LimbBase + x[4]
  IN  <<c1 \div d, c2 \div d, c3 \div d, c4 \div d>>

\* x % d for a small d > 0.
U64Mod(x, d) ==
  LET c1 == x[1]
      c2 == (c1 % d) * LimbBase + x[2]
      c3 == (c2 % d) * LimbBase + x[3]
      c4 == (c3 % d) * LimbBase + x[4]
  IN  c4 % d

\* (a - b) modulo 2^64.
U64Sub(a, b) ==
  LET d4 == a[4] - b[4]
      b4 == IF d4 < 0 THEN 1 ELSE 0
      d3 == a[3] - b[3] - b4
      b3 == IF d3 < 0 THEN 1 ELSE 0
      d2 == a[2] - b[2] - b3
      b2 == IF d2 < 0 THEN 1 ELSE 0
      d1 == a[1] - b[1] - b2
  IN  <<d1 % LimbBase, d2 % LimbBase, d3 % LimbBase, d4 % LimbBase>>

U64Zero == <<0, 0, 0, 0>>

---------------------------------------------------------------------------
(* The watched signals, in the order of the macro SIGNALS.                 *)

SIGABRT == 6
SIGBUS == 7
SIGINT == 2
SIGSEGV == 11
SIGTERM == 15
SIGNALS == <<SIGABRT, SIGBUS, SIGINT, SIGSEGV, SIGTERM>>
Watched == {SIGNALS[k] : k \in 1..Len(SIGNALS)}

SIG_DFL == "SIG_DFL"
SIG_IGN == "SIG_IGN"
CATCH == "catch_signal"

\* The signals that are blocked: with BSD semantics a signal is blocked
\* while its handler runs.
Blocked == IF bsd THEN {frames[i].sig : i \in 1..Len(frames)} ELSE {}

\* The pending signals that are to be delivered now.
Deliverable == pending \ Blocked

\* The process has neither exited nor been terminated by a signal.
Alive == killed = 0 /\ exitcode = -1

\* The main sequence is at 'l' and takes its next step: no handler runs
\* and no signal is to be delivered first.
Runs(l) == pc = l /\ Alive /\ frames = <<>> /\ Deliverable = {}

---------------------------------------------------------------------------
(* The input stream.  'getc' returns the next byte of 'file'; behind the   *)
(* bytes chosen initially the environment supplies up to MaxTail further   *)
(* bytes, one at a time, or ends the stream.                               *)

TailAlphabet == {" ", "\n", "\r", "c", "-", "0", "1", "2", "x"}

\* The possible results of one 'getc (file)': the byte and the stream.
getc(f, p, t, e) ==
  IF p < Len(f)
    THEN {[b |-> f[p + 1], f |-> f, p |-> p + 1, t |-> t, e |-> e]}
    ELSE {[b |-> EOF, f |-> f, p |-> p, t |-> t, e |-> TRUE]}
         \cup (IF ~e /\ t < MaxTail
                 THEN {[b |-> a, f |-> Append(f, a), p |-> p + 1,
                        t |-> t + 1, e |-> e] : a \in TailAlphabet}
                 ELSE {})

\* The end of the stream behind a carriage return is let through.
NoNewLineButEOF(b) == b \notin {"\n", EOF}

\* if (res != '\n') parse_error ("expected new line after carriage return");
NoNewLine(b) == b # "\n"

\* The possible results of one call of 'next ()'.  'crerr' says that the
\* call ended in 'parse_error' (a carriage return without new line).
next ==
  UNION {
    IF r.b = "\r"
      THEN {[ch |-> s.b, file |-> s.f, pos |-> s.p, tail |-> s.t,
             eofseen |-> s.e, crerr |-> NoNewLine(s.b),
             lineno |-> IF s.b = "\n" THEN lineno + 1 ELSE lineno,
             bytes |-> IF s.b = "\n" THEN bytes + 2 ELSE bytes + 1]
              : s \in getc(r.f, r.p, r.t, r.e)}
      ELSE {[ch |-> r.b, file |-> r.f, pos |-> r.p, tail |-> r.t,
             eofseen |-> r.e, crerr |-> FALSE,
             lineno |-> IF r.b = "\n" THEN lineno + 1 ELSE lineno,
             bytes |-> IF r.b # EOF THEN bytes + 1 ELSE bytes]}
    : r \in getc(file, pos, tail, eofseen)}

\* The effect of the call on the stream and on 'ch', which is assigned
\* when the call returns.
Read(o) ==
  /\ file' = o.file
  /\ pos' = o.pos
  /\ tail' = o.tail
  /\ eofseen' = o.eofseen
  /\ lineno' = o.lineno
  /\ bytes' = o.bytes
  /\ ch' = IF o.crerr THEN ch ELSE o.ch

\* 'parse_error': the message is printed and the process exits with 1.
parse_error(msg) ==
  /\ pc' = "exit"
  /\ err' = msg
  /\ exitcode' = 1

CRError == "expected new line after carriage return"

otherVars == <<fileVars, cfgVars, engVars, printVars, sigVars>>

---------------------------------------------------------------------------
(* The overflow guards of the digit loops.                                 *)

WayTooBig(acc) == INT_MAX \div 10 < acc

\* The same guard without the digit that is about to be added.
TooBigWithoutDigit(acc, digit) == INT_MAX < acc

TooBig(acc, digit) == INT_MAX - digit < acc

\* One round of the digit loop of an 'int': the message of the parse error
\* it ends in ("" if none), the new value and whether it left the range.
Accumulate(acc, digit, zeromsg, waymsg, toomsg) ==
  IF acc = 0 THEN [msg |-> zeromsg, val |-> acc, ovf |-> FALSE]
  ELSE IF WayTooBig(acc) THEN [msg |-> waymsg, val |-> acc, ovf |-> FALSE]
  ELSE LET acc10 == Mul10Wrap(acc)
           o10 == MulOverflows(acc)
       IN  IF TooBig(acc10, digit)
             THEN [msg |-> toomsg, val |-> acc10, ovf |-> o10]
             ELSE [msg |-> "", val |-> AddWrap(acc10, digit),
                   ovf |-> o10 \/ AddOverflows(acc10, digit)]

\* No number of clauses is way too large.
NeverWayTooMany(acc) == FALSE

WayTooMany(acc) == U64Less(U64Div(MAX_SIZE_T, 10), acc)

TooMany(acc, digit) == U64Less(U64Sub(MAX_SIZE_T, U64OfInt(digit)), acc)

\* One round of the digit loop of the 'size_t' number of clauses.
AccumulateClauses(acc, digit) ==
  IF acc = U64Zero
    THEN [msg |-> "invalid digit after '0' while parsing number of clauses",
          val |-> acc, ovf |-> FALSE]
  ELSE IF WayTooMany(acc)
    THEN [msg |-> "way too many clauses specified", val |-> acc,
          ovf |-> FALSE]
  ELSE LET acc10 == U64MulAdd(acc, 10, 0)
           o10 == U64MulAddOverflows(acc, 10, 0)
       IN  IF TooMany(acc10, digit)
             THEN [msg |-> "too many clauses specified", val |-> acc10,
                   ovf |-> o10]
             ELSE [msg |-> "", val |-> U64MulAdd(acc10, 1, digit),
                   ovf |-> o10 \/ U64MulAddOverflows(acc10, 1, digit)]

---------------------------------------------------------------------------
(* 'parse': the header.                                                    *)

\* while ((ch = next ()) == 'c') ...; if (ch != 'p') parse_error
P_Start ==
  /\ Runs("start")
  /\ \E o \in next :
       /\ Read(o)
       /\ IF o.crerr THEN parse_error(CRError)
          ELSE IF o.ch = "c" THEN pc' = "hcomment" /\ UNCHANGED <<err, exitcode>>
          ELSE IF o.ch # "p" THEN parse_error("expected 'p' or 'c'")
          ELSE pc' = "magic" /\ UNCHANGED <<err, exitcode>>
  /\ mi' = 1
  /\ UNCHANGED <<variables, specified_clauses, parsed_clauses, lit, sign,
                 added, ovf, otherVars>>

\* while ((ch = next ()) != '\n') if (ch == EOF) parse_error
P_HeaderComment ==
  /\ Runs("hcomment")
  /\ \E o \in next :
       /\ Read(o)
       /\ IF o.crerr THEN parse_error(CRError)
          ELSE IF o.ch = "\n" THEN pc' = "start" /\ UNCHANGED <<err, exitcode>>
          ELSE IF o.ch = EOF
            THEN parse_error("unexpected end-of-file in header comment")
          ELSE UNCHANGED ctlVars
  /\ UNCHANGED <<parseVars, otherVars>>

Magic == <<" ", "c", "n", "f", " ">>

MagicError ==
  <<"expected space after 'p'", "expected 'c' after 'p '",
    "expected 'n' after 'p c'", "expected 'f' after 'p cn'",
    "expected space after 'p cnf'">>

\* if (next () != ' ') parse_error ... if (next () != ' ') parse_error
P_Magic ==
  /\ Runs("magic")
  /\ \E o \in next :
       /\ Read(o)
       /\ IF o.crerr THEN parse_error(CRError) /\ mi' = mi
          ELSE IF o.ch # Magic[mi] THEN parse_error(MagicError[mi]) /\ mi' = mi
          ELSE /\ pc' = IF mi = 5 THEN "vskip" ELSE "magic"
               /\ mi' = IF mi = 5 THEN mi ELSE mi + 1
               /\ UNCHANGED <<err, exitcode>>
  /\ UNCHANGED <<variables, specified_clauses, parsed_clauses, lit, sign,
                 added, ovf, otherVars>>

\* while ((ch = next ()) == ' ' || ch == '\t'); variables = ch - '0';
P_VarSkip ==
  /\ Runs("vskip")
  /\ \E o \in next :
       /\ Read(o)
       /\ IF o.crerr THEN parse_error(CRError) /\ variables' = variables
          ELSE IF o.ch \in {" ", "\t"}
            THEN UNCHANGED <<ctlVars, variables>>
          ELSE IF ~isdigit(o.ch)
            THEN parse_error("expected digit after 'p cnf '")
                 /\ variables' = variables
          ELSE /\ variables' = DigitVal(o.ch)
               /\ pc' = "vdigits"
               /\ UNCHANGED <<err, exitcode>>
  /\ UNCHANGED <<mi, specified_clauses, parsed_clauses, lit, sign, added,
                 ovf, otherVars>>

\* while (isdigit (ch = next ())) ...; if (ch != ' ') parse_error
P_VarDigits ==
  /\ Runs("vdigits")
  /\ \E o \in next :
       /\ Read(o)
       /\ IF o.crerr THEN parse_error(CRError) /\ UNCHANGED <<variables, ovf>>
          ELSE IF isdigit(o.ch)
            THEN LET a == Accumulate(variables, DigitVal(o.ch),
                            "invalid digit after '0' while parsing maximum variable",
                            "maximum variable number way too big",
                            "maximum variable number too big")
                 IN  /\ variables' = a.val
                     /\ ovf' = (ovf \/ a.ovf)
                     /\ IF a.msg # "" THEN parse_error(a.msg)
                        ELSE UNCHANGED ctlVars
          ELSE IF o.ch # " "
            THEN parse_error("expected space after 'p cnf %d'")
                 /\ UNCHANGED <<variables, ovf>>
          ELSE pc' = "cskip" /\ UNCHANGED <<err, exitcode, variables, ovf>>
  /\ UNCHANGED <<mi, specified_clauses, parsed_clauses, lit, sign, added,
                 otherVars>>

\* while ((ch = next ()) == ' ' || ch == '\t'); specified_clauses = ch - '0';
P_ClausesSkip ==
  /\ Runs("cskip")
  /\ \E o \in next :
       /\ Read(o)
       /\ IF o.crerr
            THEN parse_error(CRError) /\ specified_clauses' = specified_clauses
          ELSE IF o.ch \in {" ", "\t"}
            THEN UNCHANGED <<ctlVars, specified_clauses>>
          ELSE IF ~isdigit(o.ch)
            THEN parse_error("expected digit after 'p cnf %d '")
                 /\ specified_clauses' = specified_clauses
          ELSE /\ specified_clauses' = U64OfInt(DigitVal(o.ch))
               /\ pc' = "cdigits"
               /\ UNCHANGED <<err, exitcode>>
  /\ UNCHANGED <<mi, variables, parsed_clauses, lit, sign, added, ovf,
                 otherVars>>

HeaderLineError == "expected new line after 'p cnf %d %zu'"

\* while (isdigit (ch = next ())) ...; the test for ' ', '\t' and '\n';
\* size_t parsed_clauses = 0; int lit = 0;
P_ClausesDigits ==
  /\ Runs("cdigits")
  /\ \E o \in next :
       /\ Read(o)
       /\ IF o.crerr
            THEN parse_error(CRError) /\ UNCHANGED <<specified_clauses, ovf>>
          ELSE IF isdigit(o.ch)
            THEN LET a == AccumulateClauses(specified_clauses, DigitVal(o.ch))
                 IN  /\ specified_clauses' = a.val
                     /\ ovf' = (ovf \/ a.ovf)
                     /\ IF a.msg # "" THEN parse_error(a.msg)
                        ELSE UNCHANGED ctlVars
          ELSE IF o.ch \in {" ", "\t"}
            THEN pc' = "htrail"
                 /\ UNCHANGED <<err, exitcode, specified_clauses, ovf>>
          ELSE IF o.ch # "\n"
            THEN parse_error(HeaderLineError)
                 /\ UNCHANGED <<specified_clauses, ovf>>
          ELSE pc' = "body"
               /\ UNCHANGED <<err, exitcode, specified_clauses, ovf>>
  /\ parsed_clauses' = 0
  /\ lit' = 0
  /\ UNCHANGED <<mi, variables, sign, added, otherVars>>

\* while ((ch = next ()) == ' ' || ch == '\t'); if (ch != '\n') parse_error
P_HeaderTrail ==
  /\ Runs("htrail")
  /\ \E o \in next :
       /\ Read(o)
       /\ IF o.crerr THEN parse_error(CRError)
          ELSE IF o.ch \in {" ", "\t"} THEN UNCHANGED ctlVars
          ELSE IF o.ch # "\n" THEN parse_error(HeaderLineError)
          ELSE pc' = "body" /\ UNCHANGED <<err, exitcode>>
  /\ UNCHANGED <<parseVars, otherVars>>

---------------------------------------------------------------------------
(* 'parse': the body.                                                      *)

\* The same test one clause late.
MoreClausesLate(parsed, specified) ==
  U64OfInt(parsed) = U64MulAdd(specified, 1, 1)

\* assert (parsed_clauses <= specified_clauses);
\* if (parsed_clauses == specified_clauses) parse_error
MoreClauses(parsed, specified) == U64OfInt(parsed) = specified

MoreClausesError == "more clauses than specified"

\* The start of the loop: white space, end-of-file, a comment, a sign or
\* the first digit of a literal.
P_Body ==
  /\ Runs("body")
  /\ \E o \in next :
       /\ Read(o)
       /\ IF o.crerr THEN parse_error(CRError) /\ UNCHANGED <<lit, sign>>
          ELSE IF o.ch \in {" ", "\t", "\n"}
            THEN UNCHANGED <<ctlVars, lit, sign>>
          ELSE IF o.ch = EOF
            THEN pc' = "end" /\ UNCHANGED <<err, exitcode, lit, sign>>
          ELSE IF o.ch = "c"
            THEN pc' = "bcomment" /\ UNCHANGED <<err, exitcode, lit, sign>>
          ELSE IF o.ch = "-"
            THEN pc' = "neg" /\ UNCHANGED <<err, exitcode, lit, sign>>
          ELSE IF ~isdigit(o.ch)
            THEN parse_error("expected number") /\ UNCHANGED <<lit, sign>>
          ELSE IF MoreClauses(parsed_clauses, specified_clauses)
            THEN parse_error(MoreClausesError) /\ lit' = lit /\ sign' = 1
          ELSE /\ lit' = DigitVal(o.ch)
               /\ sign' = 1
               /\ pc' = "ldigits"
               /\ UNCHANGED <<err, exitcode>>
  /\ UNCHANGED <<mi, variables, specified_clauses, parsed_clauses, added,
                 ovf, otherVars>>

\* if (ch == '-') { ch = next (); if (!isdigit (ch)) parse_error; sign = -1; }
P_Neg ==
  /\ Runs("neg")
  /\ \E o \in next :
       /\ Read(o)
       /\ IF o.crerr THEN parse_error(CRError) /\ UNCHANGED <<lit, sign>>
          ELSE IF ~isdigit(o.ch)
            THEN parse_error("expected digit after '-'")
                 /\ UNCHANGED <<lit, sign>>
          ELSE IF MoreClauses(parsed_clauses, specified_clauses)
            THEN parse_error(MoreClausesError) /\ lit' = lit /\ sign' = -1
          ELSE /\ lit' = DigitVal(o.ch)
               /\ sign' = -1
               /\ pc' = "ldigits"
               /\ UNCHANGED <<err, exitcode>>
  /\ UNCHANGED <<mi, variables, specified_clauses, parsed_clauses, added,
                 ovf, otherVars>>

\* COMMENT: while ((ch = next ()) != '\n') if (ch == EOF) parse_error
P_BodyComment ==
  /\ Runs("bcomment")
  /\ \E o \in next :
       /\ Read(o)
       /\ IF o.crerr THEN parse_error(CRError)
          ELSE IF o.ch = "\n" THEN pc' = "body" /\ UNCHANGED <<err, exitcode>>
          ELSE IF o.ch = EOF
            THEN parse_error("unexpected end-of-file in comment")
          ELSE UNCHANGED ctlVars
  /\ UNCHANGED <<parseVars, otherVars>>

\* if (ch != ' ' && ch != '\t' && ch != '\n' && ch != 'c') parse_error
\* Any byte ends a literal.
EndsLiteralAny(c) == TRUE

\* if (ch != ' ' && ch != '\t' && ch != '\n' && ch != 'c') parse_error
EndsLiteral(c) == c \in {" ", "\t", "\n", "c"}

\* The test of the range without 'abs'.
ExceedsMaximumSigned(l, v) == l > v

\* if (abs (lit) > variables) parse_error
ExceedsMaximum(l, v) == abs(l) > v

\* A zero ends a clause unless it has a '-' in front.
EndsClauseUnsigned(l, sgn) == l = 0 /\ sgn = 1

\* if (!lit) parsed_clauses++;
EndsClause(l, sgn) == l = 0

\* The loop goes on with the next byte whatever ended the literal.
AfterLiteralReadOn(c) == "body"

\* if (ch == 'c') goto COMMENT;
AfterLiteral(c) == IF c = "c" THEN "bcomment" ELSE "body"

\* The digit loop of a literal and, behind its last digit, the sign, the
\* two checks, the count of clauses and 'satch_add (solver, lit)'.
P_LitDigits ==
  /\ Runs("ldigits")
  /\ \E o \in next :
       /\ Read(o)
       /\ IF o.crerr
            THEN parse_error(CRError)
                 /\ UNCHANGED <<lit, ovf, parsed_clauses, added>>
          ELSE IF isdigit(o.ch)
            THEN LET a == Accumulate(lit, DigitVal(o.ch),
                            "invalid digit after '0' in number",
                            "number way too large", "number too large")
                 IN  /\ lit' = a.val
                     /\ ovf' = (ovf \/ a.ovf)
                     /\ IF a.msg # "" THEN parse_error(a.msg)
                        ELSE UNCHANGED ctlVars
                     /\ UNCHANGED <<parsed_clauses, added>>
          ELSE /\ lit' = lit * sign
               /\ ovf' = ovf
               /\ IF ~EndsLiteral(o.ch)
                    THEN parse_error("unexpected character after '%d'")
                         /\ UNCHANGED <<parsed_clauses, added>>
                  ELSE IF ExceedsMaximum(lit * sign, variables)
                    THEN parse_error("literal '%d' exceeds maximum variable index '%d'")
                         /\ UNCHANGED <<parsed_clauses, added>>
                  ELSE /\ parsed_clauses' =
                            IF EndsClause(lit * sign, sign) THEN parsed_clauses + 1
                            ELSE parsed_clauses
                       /\ added' = Append(added, lit * sign)
                       /\ pc' = AfterLiteral(o.ch)
                       /\ UNCHANGED <<err, exitcode>>
  /\ UNCHANGED <<mi, variables, specified_clauses, sign, otherVars>>

\* Behind the loop: if (lit) parse_error; if (parsed_clauses <
\* specified_clauses) parse_error, with one of two messages.
P_End ==
  /\ Runs("end")
  /\ IF lit # 0
       THEN parse_error("terminating zero after literal '%d' missing")
     ELSE IF U64Less(U64OfInt(parsed_clauses), specified_clauses)
       THEN IF U64OfInt(parsed_clauses + 1) = specified_clauses
              THEN parse_error("single clause missing")
              ELSE parse_error("%zu clauses missing")
     ELSE pc' = "close" /\ UNCHANGED <<err, exitcode>>
  /\ UNCHANGED <<streamVars, parseVars, otherVars>>

\* A release with 'fclose' whatever was recorded at the acquisition.
ReleaseAlways(cf) == <<"fclose">>

\* if (close_file == 1) fclose (file); if (close_file == 2) pclose (file);
Release(cf) ==
  (IF cf = 1 THEN <<"fclose">> ELSE <<>>) \o (IF cf = 2 THEN <<"pclose">> ELSE <<>>)

P_Close ==
  /\ Runs("close")
  /\ released' = released \o Release(close_file)
  /\ pc' = "solve"
  /\ UNCHANGED <<streamVars, close_file, parseVars, err, exitcode, cfgVars,
                 engVars, printVars, sigVars>>

parse ==
  \/ P_Start \/ P_HeaderComment \/ P_Magic \/ P_VarSkip \/ P_VarDigits
  \/ P_ClausesSkip \/ P_ClausesDigits \/ P_HeaderTrail
  \/ P_Body \/ P_Neg \/ P_BodyComment \/ P_LitDigits \/ P_End \/ P_Close

---------------------------------------------------------------------------
(* Decimal numerals.                                                       *)

RECURSIVE Decimal(_)
\* The decimal digits of n >= 0, as 'printf' writes them.
Decimal(n) ==
  IF n < 10 THEN <<DigitChar(n)>>
  ELSE Append(Decimal(n \div 10), DigitChar(n % 10))

\* The bytes 'sprintf (tmp, " %d", lit)' leaves in 'tmp'.
sprintf(l) ==
  IF l >= 0 THEN <<" ">> \o Decimal(l)
  ELSE LET m == -(l + 1)
           q == IF m % 10 = 9 THEN m \div 10 + 1 ELSE m \div 10
           r == IF m % 10 = 9 THEN 0 ELSE (m % 10) + 1
       IN  <<" ", "-">> \o (IF q = 0 THEN <<>> ELSE Decimal(q))
             \o <<DigitChar(r)>>

\* The numeral with the given digits.
Numeral(ds) == [i \in 1..Len(ds) |-> DigitChar(ds[i])]

RECURSIVE Concat(_)
\* The concatenation of a tuple of byte tuples.
Concat(ss) == IF ss = <<>> THEN <<>> ELSE Head(ss) \o Concat(Tail(ss))

RECURSIVE Join(_)
\* The tokens separated by single spaces.
Join(ts) ==
  IF ts = <<>> THEN <<>>
  ELSE IF Len(ts) = 1 THEN ts[1]
  ELSE ts[1] \o <<" ">> \o Join(Tail(ts))

---------------------------------------------------------------------------
(* The inputs: the chosen beginnings of the stream.                        *)

PCNF == <<"p", " ", "c", "n", "f", " ">>

HeaderLine(v, m) == PCNF \o v \o <<" ">> \o m \o <<"\n">>

VarChoices == {1, 2}
ClauseChoices == {0, 1, 2, 3}
TokenChoices == {<<"0">>, <<"1">>, <<"-", "1">>, <<"2">>}

Bodies == {Join(ts) : ts \in UNION {[1..n -> TokenChoices] : n \in 0..MaxTokens}}

\* A header line and the beginning of a body, without a separator at its end.
SmallInputs ==
  {HeaderLine(Decimal(v), Decimal(m)) \o b :
     v \in VarChoices, m \in ClauseChoices, b \in Bodies}

IntMaxDigits == <<2, 1, 4, 7, 4, 8, 3, 6, 4, 7>>
SizeMaxDigits == <<1, 8, 4, 4, 6, 7, 4, 4, 0, 7, 3, 7, 0, 9, 5, 5, 1, 6, 1, 5>>

\* Numerals at and around the numeral 'top': its last digit replaced, one
\* digit raised, one digit dropped or appended.
Around(top) ==
  LET n == Len(top)
  IN  {Numeral([top EXCEPT ![n] = d]) : d \in 0..9}
      \cup {Numeral([top EXCEPT ![k] = top[k] + 1]) : k \in {j \in 1..n : top[j] < 9}}
      \cup {Numeral(Append(top, d)) : d \in 0..9}
      \cup {Numeral(Append([top EXCEPT ![n] = d], 0)) : d \in 0..9}
      \cup {Numeral(SubSeq(top, 1, n - 1))}

\* 2^32, 2^32 + 1 and 2^32 + 10: 0, 1 and 10 after a wrap to 32 bits.
Wrapping32 ==
  {Numeral(<<4, 2, 9, 4, 9, 6, 7, 2, 9, 6>>), Numeral(<<4, 2, 9, 4, 9, 6, 7, 2, 9, 7>>),
   Numeral(<<4, 2, 9, 4, 9, 6, 7, 3, 0, 6>>)}

VarNumerals == Around(IntMaxDigits) \cup Wrapping32

BoundaryInputs ==
  {HeaderLine(v, <<"0">>) : v \in VarNumerals}
  \cup {HeaderLine(<<"1">>, m) : m \in Around(SizeMaxDigits) \cup Wrapping32}
  \cup {HeaderLine(Numeral(IntMaxDigits), <<"1">>) \o l : l \in VarNumerals}
  \cup {HeaderLine(Numeral(IntMaxDigits), <<"1">>) \o <<"-">> \o l : l \in VarNumerals}

\* Headers with comments, tabs, carriage returns and zeros, whole and cut.
HeaderShapes ==
  {<<"c", " ", "x", "\n", "c", "\n">> \o HeaderLine(<<"1">>, <<"1">>),
   <<"c", "\r", "\n">> \o PCNF \o <<"1", " ", "1", "\r", "\n">>,
   PCNF \o <<" ", "\t", "2", " ", "\t", " ", "1", "\t", " ", "\n">>,
   PCNF \o <<"1", "\t", "1", "\n">>,
   PCNF \o <<"2", " ", "\t", "1", "\t", " ", "\n">>,
   PCNF \o <<"2", " ", "2", "\n", "1", "c", " ", "0", "\n",
             "-", "2", " ", "0", "c", "\n", "0", "\n">>,
   PCNF \o <<"0", " ", "0", "\n">>,
   PCNF \o <<"0", "1", " ", "1", "\n">>,
   PCNF \o <<"1", " ", "0", "1", "\n">>,
   PCNF \o <<"1", "0", " ", "1", "0", "\n", "1", "0", " ", "-", "9">>,
   PCNF \o <<"1", " ", "1", "\n", "\t", "1", "\t", "-", "0", "\n", "c">>}

Prefixes(f) == {SubSeq(f, 1, n) : n \in 0..Len(f)}

CutInputs ==
  UNION {Prefixes(f) : f \in HeaderShapes}
  \cup {<<"p", a>> : a \in {"c", "x"}}
  \cup {<<"p", " ", "c", "n", a>> : a \in {" ", "x"}}

ParseInputs == SmallInputs \cup BoundaryInputs \cup CutInputs

---------------------------------------------------------------------------
(* The parser alone: the state in which 'main' calls 'parse ()' on an      *)
(* opened file, and the steps of 'parse'.                                  *)

InitParse ==
  /\ file \in ParseInputs
  /\ pos = 0 /\ tail = 0 /\ eofseen = FALSE
  /\ close_file = 1 /\ released = <<>>
  /\ lineno = 1 /\ bytes = 0
  /\ pc = "start" /\ ch = "" /\ mi = 1
  /\ variables = 0 /\ specified_clauses = U64Zero /\ parsed_clauses = 0
  /\ lit = 0 /\ sign = 1 /\ added = <<>> /\ ovf = FALSE
  /\ err = "" /\ exitcode = -1
  /\ quiet = FALSE /\ witness = TRUE /\ bsd = TRUE
  /\ argv = <<>> /\ argi = 1 /\ path = <<FileName>> /\ verbose = 0
  /\ logging = FALSE /\ ndebug = TRUE
  /\ solver = "init" /\ res = UNKNOWN /\ vals = [k \in 1..3 |-> TRUE]
  /\ idx = 0 /\ buffer = <<>> /\ size_buffer = 0 /\ out = <<>> /\ printed = <<>>
  /\ handler = [s \in Watched |-> CATCH]
  /\ saved = [s \in Watched |-> SIG_DFL]
  /\ caught_signal = 0 /\ si = 1 /\ frames = <<>> /\ pending = {}
  /\ delivered = 0 /\ killed = 0 /\ diag = 0

NextParse == parse

SpecParse == InitParse /\ [][NextParse]_vars

---------------------------------------------------------------------------
(* The witness printer.  Its state is the record of 'buffer',              *)
(* 'size_buffer' and the lines written so far.                             *)

Printer == [buffer |-> buffer, size_buffer |-> size_buffer, out |-> out]

\* A flush that writes the line and does not reset 'size_buffer'.
flush_keeping_buffer(st) ==
  IF st.size_buffer = 0 THEN st
  ELSE [st EXCEPT !.out = Append(st.out,
                     <<"v">> \o SubSeq(st.buffer, 1, st.size_buffer))]

\* flush_printed_values: the line 'v' + buffer is written, the buffer reset.
flush_printed_values(st) ==
  IF st.size_buffer = 0 THEN st
  ELSE [buffer |-> <<>>, size_buffer |-> 0,
        out |-> Append(st.out, <<"v">> \o SubSeq(st.buffer, 1, st.size_buffer))]

\* The same test without the size of the value that is to be appended.
NeedsFlushWithoutValue(size, size_tmp) == size > LineBudget

\* if (size_buffer + size_tmp > 77)
NeedsFlush(size, size_tmp) == size + size_tmp > LineBudget

\* print_value: " %d" is appended, behind a flush if the line were too long.
print_value(st, l) ==
  LET tmp == sprintf(l)
      size_tmp == Len(tmp)
      f == IF NeedsFlush(st.size_buffer, size_tmp)
             THEN flush_printed_values(st) ELSE st
  IN  [buffer |-> SubSeq(f.buffer, 1, f.size_buffer) \o tmp,
       size_buffer |-> f.size_buffer + size_tmp,
       out |-> f.out]

SetPrinter(st) ==
  /\ buffer' = st.buffer
  /\ size_buffer' = st.size_buffer
  /\ out' = st.out

---------------------------------------------------------------------------
(* The engine, as far as 'main' uses it: 'satch_solve' returns one of the  *)
(* three results, and 'satch_val' the variable or its negation.            *)

SignPatterns == [1..3 -> BOOLEAN]

satch_val(i) == IF vals[((i - 1) % Len(vals)) + 1] THEN i ELSE -i

---------------------------------------------------------------------------
(* 'main' behind the parsing of the options.                               *)

\* 'error': the message is printed and the process exits with 1.
error(msg) ==
  /\ pc' = "exit"
  /\ err' = msg
  /\ exitcode' = 1

\* 'main' goes on without an engine.
M_InitNothing ==
  /\ Runs("init")
  /\ pc' = "configure"
  /\ UNCHANGED <<streamVars, fileVars, parseVars, err, exitcode, cfgVars,
                 engVars, printVars, sigVars>>

\* solver = satch_init (); if (!solver) error
M_Init ==
  /\ Runs("init")
  /\ \E ok \in BOOLEAN :
       IF ok THEN /\ solver' = "init"
                  /\ pc' = "configure"
                  /\ UNCHANGED <<err, exitcode>>
       ELSE error("failed to initialize solver") /\ solver' = solver
  /\ UNCHANGED <<streamVars, fileVars, parseVars, cfgVars, res, vals,
                 printVars, sigVars>>

\* if (!quiet) satch_set_verbose_level (solver, verbose);
M_Configure ==
  /\ Runs("configure")
  /\ pc' = "acquire"
  /\ UNCHANGED <<streamVars, fileVars, parseVars, err, exitcode, cfgVars,
                 engVars, printVars, sigVars>>

\* The choice of the input: <stdin>, a path that cannot be accessed, a
\* pipe to a decompressor (whose command may fail to be allocated or to be
\* started), a file, or one that cannot be opened.
M_Acquire ==
  /\ Runs("acquire")
  /\ \E how \in IF path = <<>> THEN {"stdin"}
               ELSE {"unreadable", "oom", "pipe", "nopipe", "fopen", "null"} :
       CASE how = "stdin" ->
              close_file' = 0 /\ pc' = "install" /\ UNCHANGED <<err, exitcode>>
         [] how = "unreadable" ->
              close_file' = close_file /\ error("can not access '%s'")
         [] how = "oom" ->
              close_file' = close_file
              /\ error("out-of-memory allocating command buffer")
         [] how = "pipe" ->
              close_file' = 2 /\ pc' = "install" /\ UNCHANGED <<err, exitcode>>
         [] how = "fopen" ->
              close_file' = 1 /\ pc' = "install" /\ UNCHANGED <<err, exitcode>>
         [] how = "nopipe" ->
              close_file' = 2 /\ error("can not open '%s'")
         [] how = "null" ->
              close_file' = 1 /\ error("can not open '%s'")
  /\ si' = 1
  /\ UNCHANGED <<streamVars, released, parseVars, cfgVars, engVars,
                 printVars, handler, saved, caught_signal, frames, pending,
                 delivered, killed, diag>>

\* init_signal_handler: saved_SIG_handler = signal (SIG, catch_signal);
\* for one signal of the list after the other.
M_Install ==
  /\ Runs("install")
  /\ saved' = [saved EXCEPT ![SIGNALS[si]] = handler[SIGNALS[si]]]
  /\ handler' = [handler EXCEPT ![SIGNALS[si]] = CATCH]
  /\ si' = IF si = Len(SIGNALS) THEN 1 ELSE si + 1
  /\ pc' = IF si = Len(SIGNALS) THEN "banner" ELSE "install"
  /\ UNCHANGED <<streamVars, fileVars, parseVars, err, exitcode, cfgVars,
                 engVars, printVars, caught_signal, frames, pending,
                 delivered, killed, diag>>

\* banner (); then parse () is entered.
M_Banner ==
  /\ Runs("banner")
  /\ pc' = "start"
  /\ UNCHANGED <<streamVars, fileVars, parseVars, err, exitcode, cfgVars,
                 engVars, printVars, sigVars>>

\* int res = satch_solve (solver); the engine answers SATISFIABLE for
\* formulas of up to MaxWitnessVars variables only.
M_Solve ==
  /\ Runs("solve")
  /\ \E r \in {SATISFIABLE, UNSATISFIABLE, UNKNOWN} :
       /\ (r = SATISFIABLE => variables <= MaxWitnessVars)
       /\ res' = r
       /\ IF r = SATISFIABLE /\ witness
            THEN \E v \in SignPatterns : vals' = v
            ELSE vals' = [k \in 1..3 |-> TRUE]
  /\ pc' = "result"
  /\ UNCHANGED <<streamVars, fileVars, parseVars, err, exitcode, cfgVars,
                 solver, printVars, sigVars>>

\* if (res == SATISFIABLE) { printf ("s SATISFIABLE\n"); if (witness) ...
M_Result ==
  /\ Runs("result")
  /\ pc' = IF res = SATISFIABLE /\ witness THEN "witness" ELSE "statistics"
  /\ idx' = 1
  /\ UNCHANGED <<streamVars, fileVars, parseVars, err, exitcode, cfgVars,
                 engVars, buffer, size_buffer, out, printed, sigVars>>

\* for (int i = 1; i <= variables; i++) print_value (satch_val (solver, i));
M_Witness ==
  /\ Runs("witness")
  /\ IF idx <= variables
       THEN /\ SetPrinter(print_value(Printer, satch_val(idx)))
            /\ printed' = Append(printed, satch_val(idx))
            /\ idx' = idx + 1
            /\ pc' = pc
       ELSE /\ UNCHANGED <<idx, buffer, size_buffer, out, printed>>
            /\ pc' = "terminator"
  /\ UNCHANGED <<streamVars, fileVars, parseVars, err, exitcode, cfgVars,
                 engVars, sigVars>>

\* print_value (0);
M_Terminator ==
  /\ Runs("terminator")
  /\ SetPrinter(print_value(Printer, 0))
  /\ printed' = Append(printed, 0)
  /\ pc' = "flush"
  /\ UNCHANGED <<streamVars, fileVars, parseVars, err, exitcode, cfgVars,
                 engVars, idx, sigVars>>

\* flush_printed_values ();
M_Flush ==
  /\ Runs("flush")
  /\ SetPrinter(flush_printed_values(Printer))
  /\ pc' = "statistics"
  /\ UNCHANGED <<streamVars, fileVars, parseVars, err, exitcode, cfgVars,
                 engVars, idx, printed, sigVars>>

\* The statistics with the release of the engine directly behind them.
M_StatisticsLast ==
  /\ Runs("statistics")
  /\ pc' = "release"
  /\ UNCHANGED <<streamVars, fileVars, parseVars, err, exitcode, cfgVars,
                 engVars, printVars, sigVars>>

\* if (!quiet) { satch_statistics (solver); fflush (stdout); }
M_Statistics ==
  /\ Runs("statistics")
  /\ pc' = "restore"
  /\ UNCHANGED <<streamVars, fileVars, parseVars, err, exitcode, cfgVars,
                 engVars, printVars, sigVars>>

\* reset_signal_handler: signal (SIG, saved_SIG_handler); for one signal
\* of the list after the other.
M_Restore ==
  /\ Runs("restore")
  /\ handler' = [handler EXCEPT ![SIGNALS[si]] = saved[SIGNALS[si]]]
  /\ si' = IF si = Len(SIGNALS) THEN 1 ELSE si + 1
  /\ pc' = IF si = Len(SIGNALS) THEN "release" ELSE "restore"
  /\ UNCHANGED <<streamVars, fileVars, parseVars, err, exitcode, cfgVars,
                 engVars, printVars, saved, caught_signal, frames, pending,
                 delivered, killed, diag>>

\* satch_release (solver);
M_Release ==
  /\ Runs("release")
  /\ solver' = "released"
  /\ pc' = "return"
  /\ UNCHANGED <<streamVars, fileVars, parseVars, err, exitcode, cfgVars,
                 res, vals, printVars, sigVars>>

\* message ("exit %d", res); return res;
M_Return ==
  /\ Runs("return")
  /\ exitcode' = res
  /\ pc' = "exit"
  /\ UNCHANGED <<streamVars, fileVars, parseVars, err, cfgVars, engVars,
                 printVars, sigVars>>

main ==
  \/ M_Init \/ M_Configure \/ M_Acquire \/ M_Install \/ M_Banner
  \/ parse
  \/ M_Solve \/ M_Result \/ M_Witness \/ M_Terminator \/ M_Flush
  \/ M_Statistics \/ M_Restore \/ M_Release \/ M_Return

\* The dispositions the process may start with: the defaults, or SIGINT
\* ignored, as a shell leaves it for a command it runs in the background.
InitialDispositions ==
  {[s \in Watched |-> SIG_DFL],
   [s \in Watched |-> IF s = SIGINT THEN SIG_IGN ELSE SIG_DFL]}

\* Whole inputs of 'main': formulas without clauses of up to
\* MaxWitnessVars variables, two formulas with clauses, and one whose last
\* clause lacks its zero.
MainInputs ==
  {HeaderLine(Decimal(v), <<"0">>) : v \in {0, 1, 9, MaxWitnessVars}}
  \cup {HeaderLine(Numeral(IntMaxDigits), <<"0">>),
        HeaderLine(<<"2">>, <<"1">>) \o <<"1", " ", "-", "2", " ", "0", "\n">>,
        HeaderLine(<<"3">>, <<"2">>)
          \o <<"1", " ", "-", "2", " ", "0", "\n",
               "-", "1", " ", "2", " ", "3", " ", "0", "\n">>,
        HeaderLine(<<"2">>, <<"1">>) \o <<"1", " ", "2", "\n">>,
        <<"c", "\n">> \o PCNF \o <<"1", " ", "1", " ", "\n">>
          \o <<"c", "\n", "-", "1", " ", "0", "\n">>}

\* The state in which 'main' has parsed its options.
InitMain(inputs, semantics) ==
  /\ file \in inputs
  /\ pos = 0 /\ tail = MaxTail /\ eofseen = FALSE
  /\ close_file = 0 /\ released = <<>>
  /\ lineno = 1 /\ bytes = 0
  /\ pc = "init" /\ ch = "" /\ mi = 1
  /\ variables = 0 /\ specified_clauses = U64Zero /\ parsed_clauses = 0
  /\ lit = 0 /\ sign = 1 /\ added = <<>> /\ ovf = FALSE
  /\ err = "" /\ exitcode = -1
  /\ quiet \in BOOLEAN /\ witness \in BOOLEAN /\ bsd \in semantics
  /\ argv = <<>> /\ argi = 1 /\ path \in {<<>>, <<FileName>>} /\ verbose = 0
  /\ logging = FALSE /\ ndebug = TRUE
  /\ solver = "null" /\ res = UNKNOWN /\ vals = [k \in 1..3 |-> TRUE]
  /\ idx = 0 /\ buffer = <<>> /\ size_buffer = 0 /\ out = <<>> /\ printed = <<>>
  /\ handler \in InitialDispositions
  /\ saved = [s \in Watched |-> SIG_DFL]
  /\ caught_signal = 0 /\ si = 1 /\ frames = <<>> /\ pending = {}
  /\ delivered = 0 /\ killed = 0 /\ diag = 0

Init == InitMain(MainInputs, {TRUE})

Next == main

Spec == Init /\ [][Next]_vars

---------------------------------------------------------------------------
(* The witness printer alone: any sequence of calls of 'print_value' and   *)
(* 'flush_printed_values', 'idx' counting the calls.                       *)

\* The shortest and the longest arguments of 'print_value'.
PrintValues == {0, INT_MAX, INT_MIN}

PrintCall ==
  /\ Runs("printer")
  /\ idx < MaxCalls
  /\ \E l \in PrintValues :
       /\ SetPrinter(print_value(Printer, l))
       /\ printed' = Append(printed, l)
  /\ idx' = idx + 1
  /\ UNCHANGED <<streamVars, fileVars, parseVars, ctlVars, cfgVars, engVars,
                 sigVars>>

FlushCall ==
  /\ Runs("printer")
  /\ idx < MaxCalls
  /\ SetPrinter(flush_printed_values(Printer))
  /\ idx' = idx + 1
  /\ UNCHANGED <<streamVars, fileVars, parseVars, ctlVars, cfgVars, engVars,
                 printed, sigVars>>

InitPrint ==
  /\ file = <<>> /\ pos = 0 /\ tail = MaxTail /\ eofseen = FALSE
  /\ close_file = 0 /\ released = <<>>
  /\ lineno = 1 /\ bytes = 0
  /\ pc = "printer" /\ ch = "" /\ mi = 1
  /\ variables = 0 /\ specified_clauses = U64Zero /\ parsed_clauses = 0
  /\ lit = 0 /\ sign = 1 /\ added = <<>> /\ ovf = FALSE
  /\ err = "" /\ exitcode = -1
  /\ quiet = FALSE /\ witness = TRUE /\ bsd = TRUE
  /\ argv = <<>> /\ argi = 1 /\ path = <<FileName>> /\ verbose = 0
  /\ logging = FALSE /\ ndebug = TRUE
  /\ solver = "init" /\ res = SATISFIABLE /\ vals = [k \in 1..3 |-> TRUE]
  /\ idx = 0 /\ buffer = <<>> /\ size_buffer = 0 /\ out = <<>> /\ printed = <<>>
  /\ handler = [s \in Watched |-> SIG_DFL]
  /\ saved = [s \in Watched |-> SIG_DFL]
  /\ caught_signal = 0 /\ si = 1 /\ frames = <<>> /\ pending = {}
  /\ delivered = 0 /\ killed = 0 /\ diag = 0

NextPrint == PrintCall \/ FlushCall

SpecPrint == InitPrint /\ [][NextPrint]_vars

---------------------------------------------------------------------------
(* Signals.  A delivery of a caught signal pushes a frame of               *)
(* 'catch_signal' on 'frames'; the frame on top runs, one statement a      *)
(* step.  'bsd' says whether 'signal' installs handlers that stay          *)
(* installed and block their signal while they run, or handlers that are   *)
(* reset to the default when they are entered.                             *)

\* The signals the environment sends: one that may have been ignored when
\* the process started, and one that was not.
Sent == {SIGINT, SIGTERM}

Top == frames[Len(frames)]

Handles(h) == Alive /\ frames # <<>> /\ Deliverable = {} /\ Top.hpc = h

At(h) == [frames EXCEPT ![Len(frames)].hpc = h]

\* The signal 'sig' is generated, 'fr' being the frames and 'pend' the
\* pending signals: it stays pending while it is blocked, is discarded
\* when ignored, terminates the process by default, and is caught else.
Arrive(sig, fr, pend) ==
  IF bsd /\ sig \in {fr[i].sig : i \in 1..Len(fr)}
    THEN /\ pending' = pend \cup {sig}
         /\ frames' = fr
         /\ UNCHANGED <<handler, killed>>
  ELSE IF handler[sig] = SIG_IGN
    THEN /\ pending' = pend
         /\ frames' = fr
         /\ UNCHANGED <<handler, killed>>
  ELSE IF handler[sig] = SIG_DFL
    THEN /\ killed' = sig
         /\ pending' = pend
         /\ frames' = fr
         /\ UNCHANGED handler
  ELSE /\ frames' = Append(fr, [sig |-> sig, hpc |-> "check", k |-> 1])
       /\ handler' = IF bsd THEN handler ELSE [handler EXCEPT ![sig] = SIG_DFL]
       /\ pending' = pend
       /\ UNCHANGED killed

\* The environment sends a signal to the running process.
S_Deliver ==
  /\ Alive
  /\ pc # "exit"
  /\ delivered < MaxDeliveries
  /\ \E sig \in Sent : Arrive(sig, frames, pending)
  /\ delivered' = delivered + 1
  /\ UNCHANGED <<streamVars, fileVars, parseVars, ctlVars, cfgVars, engVars,
                 printVars, saved, caught_signal, si, diag>>

\* A pending signal that is not blocked any more is delivered.
S_Pending ==
  /\ Alive
  /\ \E sig \in Deliverable : Arrive(sig, frames, pending \ {sig})
  /\ UNCHANGED <<streamVars, fileVars, parseVars, ctlVars, cfgVars, engVars,
                 printVars, saved, caught_signal, si, delivered, diag>>

\* if (caught_signal) return;
H_Check ==
  /\ Handles("check")
  /\ frames' = At(IF caught_signal # 0 THEN "return" ELSE "set")
  /\ UNCHANGED <<streamVars, fileVars, parseVars, ctlVars, cfgVars, engVars,
                 printVars, handler, saved, caught_signal, si, pending,
                 delivered, killed, diag>>

\* caught_signal = sig;
H_Set ==
  /\ Handles("set")
  /\ caught_signal' = Top.sig
  /\ frames' = At("print")
  /\ UNCHANGED <<streamVars, fileVars, parseVars, ctlVars, cfgVars, engVars,
                 printVars, handler, saved, si, pending, delivered, killed,
                 diag>>

\* if (!quiet) { printf ("c\nc caught signal ..."); satch_statistics
\* (solver); printf ("c\nc raising signal ..."); }
H_Print ==
  /\ Handles("print")
  /\ diag' = IF quiet THEN diag ELSE diag + 1
  /\ frames' = At("reset")
  /\ UNCHANGED <<streamVars, fileVars, parseVars, ctlVars, cfgVars, engVars,
                 printVars, handler, saved, caught_signal, si, pending,
                 delivered, killed>>

\* A handler that goes on to 'raise' without the call of
\* 'reset_signal_handler'.
H_ResetNothing ==
  /\ Handles("reset")
  /\ frames' = At("raise")
  /\ UNCHANGED <<streamVars, fileVars, parseVars, ctlVars, cfgVars, engVars,
                 printVars, handler, saved, caught_signal, si, pending,
                 delivered, killed, diag>>

\* reset_signal_handler (); one signal of the list after the other.
H_Reset ==
  /\ Handles("reset")
  /\ handler' = [handler EXCEPT ![SIGNALS[Top.k]] = saved[SIGNALS[Top.k]]]
  /\ frames' = [frames EXCEPT ![Len(frames)] =
                  IF Top.k = Len(SIGNALS)
                    THEN [Top EXCEPT !.hpc = "raise"]
                    ELSE [Top EXCEPT !.k = Top.k + 1]]
  /\ UNCHANGED <<streamVars, fileVars, parseVars, ctlVars, cfgVars, engVars,
                 printVars, saved, caught_signal, si, pending, delivered,
                 killed, diag>>

\* raise (sig);
H_Raise ==
  /\ Handles("raise")
  /\ Arrive(Top.sig, At("return"), pending)
  /\ UNCHANGED <<streamVars, fileVars, parseVars, ctlVars, cfgVars, engVars,
                 printVars, saved, caught_signal, si, delivered, diag>>

\* 'catch_signal' returns to what it interrupted.
H_Return ==
  /\ Handles("return")
  /\ frames' = SubSeq(frames, 1, Len(frames) - 1)
  /\ UNCHANGED <<streamVars, fileVars, parseVars, ctlVars, cfgVars, engVars,
                 printVars, handler, saved, caught_signal, si, pending,
                 delivered, killed, diag>>

catch_signal == H_Check \/ H_Set \/ H_Print \/ H_Reset \/ H_Raise \/ H_Return

\* A formula with a comment in front of its header, a blank behind it, a
\* comment in its body and a negative literal.
SigInputs ==
  {<<"c", "\n">> \o PCNF \o <<"1", " ", "1", " ", "\n">>
     \o <<"c", "\n", "-", "1", " ", "0", "\n">>}

InitSig == InitMain(SigInputs, BOOLEAN)

NextSig == main \/ S_Deliver \/ S_Pending \/ catch_signal

SpecSig == InitSig /\ [][NextSig]_vars

---------------------------------------------------------------------------
(* The options of 'main'.  An argument is the tuple of its characters.     *)

OptH == <<"-", "h">>
OptVersion == <<"-", "-", "v", "e", "r", "s", "i", "o", "n">>
OptN == <<"-", "n">>
OptNoWitness == <<"-", "-", "n", "o", "-", "w", "i", "t", "n", "e", "s", "s">>
OptQ == <<"-", "q">>
OptQuiet == <<"-", "-", "q", "u", "i", "e", "t">>
OptV == <<"-", "v">>
OptVerbose == <<"-", "-", "v", "e", "r", "b", "o", "s", "e">>
OptL == <<"-", "l">>
OptLog == <<"-", "-", "l", "o", "g">>

\* No argument is taken to begin with '-'.
NoDash(arg) == FALSE

\* arg[0] == '-'
Dash(arg) == arg # <<>> /\ arg[1] = "-"

\* One round of the loop over the arguments.
M_Arg ==
  /\ Runs("args")
  /\ argi <= Len(argv)
  /\ LET arg == argv[argi]
         goes == /\ argi' = argi + 1
                 /\ UNCHANGED <<pc, err, exitcode>>
         fails(msg) == error(msg) /\ argi' = argi
     IN  CASE arg \in {OptH, OptVersion} ->
                /\ pc' = "exit" /\ exitcode' = 0 /\ err' = err /\ argi' = argi
                /\ UNCHANGED <<witness, quiet, verbose, logging, path>>
           [] arg \in {OptN, OptNoWitness} ->
                /\ goes /\ witness' = FALSE
                /\ UNCHANGED <<quiet, verbose, logging, path>>
           [] arg \in {OptQ, OptQuiet} ->
                /\ goes /\ quiet' = TRUE
                /\ UNCHANGED <<witness, verbose, logging, path>>
           [] arg \in {OptV, OptVerbose} ->
                /\ goes /\ verbose' = verbose + (IF verbose < INT_MAX THEN 1 ELSE 0)
                /\ UNCHANGED <<witness, quiet, logging, path>>
           [] arg \in {OptL, OptLog} ->
                /\ IF ndebug
                     THEN fails("solver configured without logging support")
                          /\ logging' = logging
                     ELSE goes /\ logging' = TRUE
                /\ UNCHANGED <<witness, quiet, verbose, path>>
           [] OTHER ->
                /\ IF Dash(arg)
                     THEN fails("invalid command option '%s' (try '-h')")
                          /\ path' = path
                   ELSE IF path # <<>>
                     THEN fails("multiple files '%s' and '%s' (try '-h')")
                          /\ path' = path
                   ELSE goes /\ path' = <<arg>>
                /\ UNCHANGED <<witness, quiet, verbose, logging>>
  /\ UNCHANGED <<streamVars, fileVars, parseVars, bsd, argv, ndebug, engVars,
                 printVars, sigVars>>

\* Behind the loop: if (quiet && logging) error; if (quiet && verbose > 1)
\* error;
M_Options ==
  /\ Runs("args")
  /\ argi > Len(argv)
  /\ IF ~ndebug /\ quiet /\ logging
       THEN error("can not combine '--quiet' and '--log'")
     ELSE IF quiet /\ verbose > 1
       THEN error("can not combine '--quiet' and '--verbose'")
     ELSE pc' = "init" /\ UNCHANGED <<err, exitcode>>
  /\ UNCHANGED <<streamVars, fileVars, parseVars, cfgVars, engVars,
                 printVars, sigVars>>

\* The arguments: every option in one of its spellings, an option there
\* is not, the single '-' and two names.
ArgChoices ==
  {OptH, OptVersion, OptN, OptQuiet, OptV, OptL, <<"-", "x">>, <<"-">>,
   FileName, <<"b">>}

ArgLists == UNION {[1..n -> ArgChoices] : n \in 0..MaxArgs}

\* The state in which 'main' is entered.
InitArgs ==
  /\ file \in SigInputs
  /\ pos = 0 /\ tail = MaxTail /\ eofseen = FALSE
  /\ close_file = 0 /\ released = <<>>
  /\ lineno = 1 /\ bytes = 0
  /\ pc = "args" /\ ch = "" /\ mi = 1
  /\ variables = 0 /\ specified_clauses = U64Zero /\ parsed_clauses = 0
  /\ lit = 0 /\ sign = 1 /\ added = <<>> /\ ovf = FALSE
  /\ err = "" /\ exitcode = -1
  /\ quiet = FALSE /\ witness = TRUE /\ bsd = TRUE
  /\ argv \in ArgLists /\ argi = 1 /\ path = <<>> /\ verbose = 0
  /\ logging = FALSE /\ ndebug \in BOOLEAN
  /\ solver = "null" /\ res = UNKNOWN /\ vals = [k \in 1..3 |-> TRUE]
  /\ idx = 0 /\ buffer = <<>> /\ size_buffer = 0 /\ out = <<>> /\ printed = <<>>
  /\ handler = [s \in Watched |-> SIG_DFL]
  /\ saved = [s \in Watched |-> SIG_DFL]
  /\ caught_signal = 0 /\ si = 1 /\ frames = <<>> /\ pending = {}
  /\ delivered = 0 /\ killed = 0 /\ diag = 0

NextArgs == M_Arg \/ M_Options \/ main

SpecArgs == InitArgs /\ [][NextArgs]_vars

---------------------------------------------------------------------------
(* The DIMACS reading of an input, by which the claims about the parser    *)
(* are stated: the grammar of the format applied to the whole input,       *)
(* independently of the steps of 'parse'.                                  *)

IsSpace(c) == c \in {" ", "\t", "\n"}

RECURSIVE Unix(_)
\* The input with every carriage return before a new line dropped.
Unix(f) ==
  IF Len(f) < 2 THEN f
  ELSE IF f[1] = "\r" /\ f[2] = "\n" THEN Unix(Tail(f))
  ELSE <<f[1]>> \o Unix(Tail(f))

\* The index of the first new line of f at or behind i, 0 if there is none.
LineEnd(f, i) ==
  LET S == {j \in i..Len(f) : f[j] = "\n"}
  IN  IF S = {} THEN 0 ELSE CHOOSE j \in S : \A k \in S : j <= k

RECURSIVE HeaderStart(_, _)
\* The index of the first byte behind the leading comment lines, 0 if a
\* comment line is cut short or nothing follows.
HeaderStart(f, i) ==
  IF i > Len(f) THEN 0
  ELSE IF f[i] = "c"
    THEN (IF LineEnd(f, i) = 0 THEN 0 ELSE HeaderStart(f, LineEnd(f, i) + 1))
  ELSE i

\* A numeral without sign and without superfluous zeros.
IsNumeral(t) ==
  /\ Len(t) > 0
  /\ \A i \in 1..Len(t) : t[i] \in Digit
  /\ (Len(t) > 1 => t[1] # "0")

\* The numeral a denotes a smaller number than the numeral b.
NumLess(a, b) ==
  \/ Len(a) < Len(b)
  \/ /\ Len(a) = Len(b)
     /\ \E i \in 1..Len(a) :
          /\ DigitVal(a[i]) < DigitVal(b[i])
          /\ \A j \in 1..(i - 1) : a[j] = b[j]

NumLeq(a, b) == a = b \/ NumLess(a, b)

IntMaxNumeral == Numeral(IntMaxDigits)
SizeMaxNumeral == Numeral(SizeMaxDigits)

RECURSIVE NumValue(_)
\* The number a numeral up to INT_MAX denotes.
NumValue(t) ==
  IF Len(t) = 1 THEN DigitVal(t[1])
  ELSE NumValue(SubSeq(t, 1, Len(t) - 1)) * 10 + DigitVal(t[Len(t)])

\* The header line of f in its plain shape 'p cnf V M': its two numerals
\* and the index of its new line; ok says whether it has that shape.
RefHeader(f) ==
  LET u == Unix(f)
      hs == HeaderStart(u, 1)
      he == IF hs = 0 THEN 0 ELSE LineEnd(u, hs)
      line == IF he = 0 THEN <<>> ELSE SubSeq(u, hs, he - 1)
      S == {j \in 7..Len(line) : line[j] = " "}
      sp == IF S = {} THEN 0 ELSE CHOOSE j \in S : \A k \in S : j <= k
      v == IF sp = 0 THEN <<>> ELSE SubSeq(line, 7, sp - 1)
      m == IF sp = 0 THEN <<>> ELSE SubSeq(line, sp + 1, Len(line))
  IN  [ok |-> /\ he # 0
              /\ Len(line) >= 9
              /\ SubSeq(line, 1, 6) = PCNF
              /\ sp # 0
              /\ IsNumeral(v) /\ NumLeq(v, IntMaxNumeral)
              /\ IsNumeral(m) /\ NumLeq(m, SizeMaxNumeral),
       v |-> v, m |-> m,
       body |-> IF he = 0 THEN <<>> ELSE SubSeq(u, he + 1, Len(u))]

RECURSIVE StripComments(_)
\* The body with every comment, from its 'c' to the end of its line,
\* replaced by that new line; "#" marks a comment that no new line ends.
StripComments(b) ==
  IF b = <<>> THEN <<>>
  ELSE IF b[1] = "c"
    THEN (IF LineEnd(b, 1) = 0 THEN <<"#">>
          ELSE <<"\n">> \o StripComments(SubSeq(b, LineEnd(b, 1) + 1, Len(b))))
  ELSE <<b[1]>> \o StripComments(Tail(b))

RECURSIVE Split(_, _)
\* The maximal runs of bytes of b that are not white space, behind the
\* run 'cur' that is being read.
Split(b, cur) ==
  IF b = <<>> THEN (IF cur = <<>> THEN <<>> ELSE <<cur>>)
  ELSE IF IsSpace(b[1])
    THEN (IF cur = <<>> THEN <<>> ELSE <<cur>>) \o Split(Tail(b), <<>>)
  ELSE Split(Tail(b), Append(cur, b[1]))

RefTokens(f) == Split(StripComments(RefHeader(f).body), <<>>)

\* A literal: a numeral up to INT_MAX behind at most one '-'.
IsLiteral(t) ==
  LET n == IF t # <<>> /\ t[1] = "-" THEN Tail(t) ELSE t
  IN  IsNumeral(n) /\ NumLeq(n, IntMaxNumeral)

RefValue(t) ==
  IF t[1] = "-" THEN -NumValue(Tail(t)) ELSE NumValue(t)

\* The literals of the body of f, in order.
RefLits(f) ==
  LET ts == RefTokens(f) IN [i \in 1..Len(ts) |-> RefValue(ts[i])]

Zeros(q) == Cardinality({i \in 1..Len(q) : q[i] = 0})

\* The body consists of literals.
LiteralsOnly(f) == \A i \in 1..Len(RefTokens(f)) : IsLiteral(RefTokens(f)[i])

\* V and M are plain numerals and the body consists of literals.
Readable(f) == RefHeader(f).ok /\ LiteralsOnly(f)

LastLit(f) == RefLits(f)[Len(RefLits(f))]

\* The literals are within V.
InRange(f) ==
  \A i \in 1..Len(RefLits(f)) :
    NumLeq(Decimal(abs(RefLits(f)[i])), RefHeader(f).v)

\* A well-formed input: M clauses, each ended by a zero.
WellFormed(f) ==
  /\ Readable(f)
  /\ InRange(f)
  /\ (RefLits(f) # <<>> => RefLits(f)[Len(RefLits(f))] = 0)
  /\ Decimal(Zeros(RefLits(f))) = RefHeader(f).m

\* The last byte of the input ends a line or is white space.
EndsWithSpace(f) == f # <<>> /\ IsSpace(f[Len(f)])

ParseDone == pc \in {"close", "solve"}
ParseFailed == pc = "exit" /\ err # ""

---------------------------------------------------------------------------
(* C1: every well-formed input, also one whose last literal is ended by    *)
(* the end of the stream, is parsed without a parse error, the values      *)
(* passed to 'satch_add' are the literals of the body in their order, and  *)
(* M of them are zero.                                                     *)
C1_WellFormedParses ==
  /\ ParseFailed => ~WellFormed(file)
  /\ (ParseDone /\ WellFormed(file)) =>
       /\ added = RefLits(file)
       /\ U64OfInt(Zeros(added)) = specified_clauses

\* The same for the inputs whose last byte is white space: this holds.
ParsesTerminatedInputs ==
  /\ (ParseFailed /\ EndsWithSpace(file)) => ~WellFormed(file)
  /\ ParseDone =>
       /\ LiteralsOnly(file)
       /\ added = RefLits(file)
       /\ U64OfInt(Zeros(added)) = specified_clauses

\* C1 is reached: a well-formed input with a clause has been parsed.
C1_Reached == ParseDone /\ WellFormed(file) /\ Len(added) >= 2

---------------------------------------------------------------------------
\* The whole input has been read and its literals are literals within V.
ReadToEnd ==
  /\ pc \in {"exit", "close", "solve"}
  /\ eofseen /\ pos = Len(file)
  /\ Readable(file) /\ InRange(file)

(* C2: the count of clauses never exceeds the specified number M; no      *)
(* literal is begun once M clauses are parsed; an input with more than M  *)
(* terminating zeros fails with 'more clauses than specified', and that   *)
(* error is raised at the first digit of the literal that follows the     *)
(* M-th zero, before the end of the stream is seen.                       *)
C2_NeverMoreClauses ==
  /\ ~U64Less(specified_clauses, U64OfInt(parsed_clauses))
  /\ Zeros(added) = parsed_clauses
  /\ pc = "ldigits" => U64Less(U64OfInt(parsed_clauses), specified_clauses)
  /\ err = MoreClausesError =>
       /\ ~eofseen
       /\ isdigit(ch) /\ file[pos] = ch
       /\ IsSpace(file[IF file[pos - 1] = "-" THEN pos - 2 ELSE pos - 1])
       /\ U64OfInt(Zeros(added)) = specified_clauses
  /\ ( /\ pc \in {"exit", "close", "solve"}
       /\ Readable(file) /\ InRange(file)
       /\ NumLess(RefHeader(file).m, Decimal(Zeros(RefLits(file)))) )
     => (ParseFailed /\ err = MoreClausesError)

\* C2 is reached: a body with one zero more than M has been rejected.
C2_Reached ==
  /\ err = MoreClausesError
  /\ Readable(file)
  /\ Zeros(added) >= 1
  /\ Zeros(RefLits(file)) = Zeros(added) + 1

OneMissing == "single clause missing"
MoreMissing == "%zu clauses missing"

(* C3: an input that ends behind fewer than M clauses, its last literal a *)
(* zero, fails: with 'single clause missing' if one clause is missing and *)
(* with the count of the missing clauses if more are.                     *)
C3_MissingClauses ==
  ( /\ ReadToEnd
    /\ (RefLits(file) # <<>> => LastLit(file) = 0)
    /\ NumLess(Decimal(Zeros(RefLits(file))), RefHeader(file).m) )
  => /\ ParseFailed
     /\ err = IF Decimal(Zeros(RefLits(file)) + 1) = RefHeader(file).m
                THEN OneMissing ELSE MoreMissing

\* The same for the inputs whose last byte is white space: this holds.
MissingClausesTerminated ==
  /\ EndsWithSpace(file) => C3_MissingClauses
  /\ err = OneMissing =>
       lit = 0 /\ U64OfInt(parsed_clauses + 1) = specified_clauses
  /\ err = MoreMissing =>
       lit = 0 /\ U64Less(U64OfInt(parsed_clauses + 1), specified_clauses)

TerminatingZeroMissing == "terminating zero after literal '%d' missing"

(* C4: an input that ends behind a literal other than zero fails with     *)
(* 'terminating zero after literal .. missing' for that literal, whatever *)
(* follows the literal, and before any count of clauses is compared.      *)
C4_TerminatingZero ==
  ( /\ ReadToEnd
    /\ RefLits(file) # <<>> /\ LastLit(file) # 0
    /\ NumLess(Decimal(Zeros(RefLits(file))), RefHeader(file).m) )
  => /\ ParseFailed
     /\ err = TerminatingZeroMissing
     /\ lit = LastLit(file)

\* The same for the inputs whose last byte is white space: this holds.
TerminatingZeroTerminated == EndsWithSpace(file) => C4_TerminatingZero

ExceedsError == "literal '%d' exceeds maximum variable index '%d'"

(* C5: a literal whose absolute value exceeds V, positive or negative, is *)
(* never passed to 'satch_add', and no input with such a literal is       *)
(* parsed successfully.                                                   *)
C5_LiteralInRange ==
  /\ \A i \in 1..Len(added) : abs(added[i]) <= variables
  /\ (ParseDone /\ RefHeader(file).ok) => (Readable(file) /\ InRange(file))
  /\ err = ExceedsError =>
       /\ abs(lit) > variables
       /\ LET n == IF file[pos - 1] = "\r" THEN pos - 2 ELSE pos - 1
          IN  /\ LiteralsOnly(SubSeq(file, 1, n))
              /\ LastLit(SubSeq(file, 1, n)) = lit

\* C5 is reached: a negative literal beyond V has been rejected.
C5_Reached == err = ExceedsError /\ lit < 0 /\ Len(added) >= 1

\* The digits of the number of variables among the bytes of f.
VarRun(f) ==
  LET u == Unix(f)
      hs == HeaderStart(u, 1)
      T == IF hs = 0 THEN {}
           ELSE {j \in (hs + 6)..Len(u) : u[j] \notin {" ", "\t"}}
      b == IF T = {} THEN 0 ELSE CHOOSE j \in T : \A k \in T : j <= k
      E == IF b = 0 THEN {} ELSE {j \in b..Len(u) : u[j] \notin Digit}
      e == IF E = {} THEN Len(u) + 1 ELSE CHOOSE j \in E : \A k \in E : j <= k
  IN  IF b = 0 THEN <<>> ELSE SubSeq(u, b, e - 1)

VarOverflow ==
  {"maximum variable number way too big", "maximum variable number too big"}

(* C6: the number of variables is parsed with its exact value up to       *)
(* INT_MAX = 2^31 - 1; a numeral that denotes 2^31 or more fails with one *)
(* of the two overflow errors; no accumulation leaves the range of its    *)
(* type at any step.                                                      *)
C6_VariablesOverflow ==
  /\ ~ovf
  /\ variables >= 0
  /\ pc \in {"cskip", "cdigits", "htrail", "body", "end", "close", "solve"} =>
       /\ IsNumeral(VarRun(file))
       /\ Decimal(variables) = VarRun(file)
  /\ ( /\ pc \in {"vdigits", "cskip", "exit"}
       /\ IsNumeral(VarRun(SubSeq(file, 1, pos)))
       /\ NumLess(IntMaxNumeral, VarRun(SubSeq(file, 1, pos))) )
     => (ParseFailed /\ err \in VarOverflow)
  /\ err \in VarOverflow =>
       NumLess(IntMaxNumeral, VarRun(SubSeq(file, 1, pos)))

\* C6 is reached: a header with V = INT_MAX has been parsed.
C6_Reached == ParseDone /\ variables = INT_MAX /\ VarRun(file) = IntMaxNumeral

---------------------------------------------------------------------------
(* The witness lines, read back.                                           *)

\* The values on a line behind its 'v'.
LineTokens(line) == Split(Tail(line), <<>>)

\* The tokens of the lines written so far, in order.
OutTokens == Concat([i \in 1..Len(out) |-> LineTokens(out[i])])

ValuesOf(ts) == [i \in 1..Len(ts) |-> RefValue(ts[i])]

\* What 'main' has to print: the value of every variable, then 0.
WitnessValues ==
  [i \in 1..variables + 1 |-> IF i <= variables THEN satch_val(i) ELSE 0]

AfterWitness == {"statistics", "restore", "release", "return", "exit"}

\* C7: whatever calls of 'print_value' and 'flush_printed_values' have
\* been made with 32-bit arguments, every line written has at most 78
\* characters with its 'v', 'size_buffer' is the length of the buffered
\* text and at most 77, and it is small enough for the assertion of
\* 'flush_printed_values' to hold and for an append to start inside the
\* buffer of 80 bytes.
C7_LineLimit ==
  /\ size_buffer = Len(buffer)
  /\ size_buffer <= LineBudget
  /\ size_buffer + 1 < BufferCapacity
  /\ \A i \in 1..Len(out) : Len(out[i]) <= LineBudget + 1

\* A line of exactly 78 characters has been written.
C7_Reached == \E i \in 1..Len(out) : Len(out[i]) = LineBudget + 1

\* C8: when the result is SATISFIABLE and the witness is printed, the
\* values on the 'v' lines followed by the buffered ones are at every
\* moment the values printed so far, a beginning of satch_val(1..V), 0;
\* behind the final flush the lines hold exactly satch_val(1..V) and one
\* 0, no line is empty, and the buffer is empty.  Otherwise no 'v' line is
\* written.
C8_WitnessComplete ==
  /\ \A i \in 1..Len(out) :
       /\ out[i][1] = "v"
       /\ LineTokens(out[i]) # <<>>
       /\ \A j \in 1..Len(LineTokens(out[i])) : IsLiteral(LineTokens(out[i])[j])
  /\ ValuesOf(OutTokens \o Split(buffer, <<>>)) = printed
  /\ IF res = SATISFIABLE /\ witness
       THEN /\ Len(printed) <= variables + 1
            /\ printed = SubSeq(WitnessValues, 1, Len(printed))
            /\ pc \in AfterWitness =>
                 /\ ValuesOf(OutTokens) = WitnessValues
                 /\ Zeros(ValuesOf(OutTokens)) = 1
                 /\ size_buffer = 0
                 /\ buffer = <<>>
       ELSE printed = <<>> /\ out = <<>> /\ buffer = <<>>

\* The process has returned SATISFIABLE behind a witness of more than
\* one line.
C8_Reached ==
  /\ pc = "exit" /\ exitcode = SATISFIABLE /\ witness
  /\ variables = MaxWitnessVars
  /\ Len(out) >= 2

\* C9: whatever watched signals are delivered, and whenever, the
\* diagnostics of 'catch_signal' are printed at most once.
C9_DiagnosticsOnce == diag <= 1

\* C10: once 'catch_signal' has caught a signal, the main sequence takes
\* no further step.
C10_NeverResumes == [][caught_signal # 0 => pc' = pc]_vars

\* C11: when the process exits by 'exit' or by the return of 'main',
\* 'catch_signal' is the disposition of no watched signal.
C11_RestoredAtExit ==
  pc = "exit" => \A s \in Watched : handler[s] # CATCH

\* What is released behind a parse that succeeded.
ReleasedRight ==
  /\ Len(released) <= 1
  /\ err # "" => released = <<>>
  /\ pc \in {"solve", "result", "witness", "terminator", "flush"}
              \cup AfterWitness /\ err = "" =>
       released = (CASE close_file = 0 -> <<>>
                     [] close_file = 1 -> <<"fclose">>
                     [] close_file = 2 -> <<"pclose">>)

\* C12: the stream is released at most once, never on a path that ends
\* in an error, and behind a successful parse exactly as recorded at the
\* acquisition: not at all for <stdin>, by 'fclose' for an opened file, by
\* 'pclose' for a pipe; no byte is read from a released stream.
C12_ReleasedOnce ==
  [][/\ ReleasedRight
     /\ ReleasedRight'
     /\ released # <<>> => UNCHANGED streamVars]_vars

\* The process has exited normally after it closed a pipe.
C12_Reached == pc = "exit" /\ err = "" /\ released = <<"pclose">> /\ bytes > 0

\* The step of the front controller a label belongs to.
Stage(l) ==
  CASE l = "init" -> 1
    [] l = "configure" -> 2
    [] l = "acquire" -> 3
    [] l = "install" -> 4
    [] l = "banner" -> 5
    [] l \in {"start", "hcomment", "magic", "vskip", "vdigits", "cskip",
              "cdigits", "htrail", "body", "neg", "bcomment", "ldigits",
              "end", "close"} -> 6
    [] l = "solve" -> 7
    [] l \in {"result", "witness", "terminator", "flush"} -> 8
    [] l = "statistics" -> 9
    [] l = "restore" -> 10
    [] l = "release" -> 11
    [] l = "return" -> 12
    [] l = "exit" -> 13

\* What the steps that are done have left behind.
Done ==
  /\ Stage(pc) = 1 <=> solver = "null"
  /\ Stage(pc) <= 3 => close_file = 0 /\ handler \in InitialDispositions
  /\ Stage(pc) \in 5..9 => \A s \in Watched : handler[s] = CATCH
  /\ Stage(pc) <= 6 => released = <<>> /\ res = UNKNOWN
  /\ Stage(pc) <= 7 => out = <<>> /\ buffer = <<>>
  /\ Stage(pc) >= 7 => Len(released) = (IF close_file = 0 THEN 0 ELSE 1)
  /\ Stage(pc) >= 9 /\ res = SATISFIABLE /\ witness => out # <<>>
  /\ Stage(pc) >= 11 => handler = saved /\ handler \in InitialDispositions
  /\ Stage(pc) >= 12 <=> solver = "released"
  /\ Stage(pc) = 13 <=> exitcode # -1
  /\ Stage(pc) = 13 => exitcode = res

\* C13: on a run without errors every step of 'main' stays in its step
\* of the front controller or enters the next one of the order creation,
\* configuration, acquisition, installation, banner, parse, solve, result
\* and witness, statistics, restoration, release, exit; each step has left
\* its effect when the next one begins, and the exit code is the result of
\* the engine.
C13_StepsInOrder ==
  [][err' = "" =>
       /\ Stage(pc') \in {Stage(pc), Stage(pc) + 1}
       /\ Done'
       /\ Done]_vars

\* The process has done every step and exits with UNSATISFIABLE.
C13_Reached ==
  pc = "exit" /\ err = "" /\ exitcode = UNSATISFIABLE /\ solver = "released"

RECURSIVE U64Decimal(_)
\* The decimal digits of a 64-bit number, as '%zu' writes them.
U64Decimal(x) ==
  IF U64Div(x, 10) = U64Zero THEN <<DigitChar(U64Mod(x, 10))>>
  ELSE Append(U64Decimal(U64Div(x, 10)), DigitChar(U64Mod(x, 10)))

\* The header line of f behind its comment lines: where it ends, and its
\* fields behind 'p cnf ', with blanks and tabs as separators.
HeaderFields(f) ==
  LET hs == HeaderStart(f, 1)
      he == IF hs = 0 THEN 0 ELSE LineEnd(f, hs)
      line == IF he = 0 THEN <<>> ELSE SubSeq(f, hs, he - 1)
      rest == SubSeq(line, 7, Len(line))
  IN  [end |-> he, line |-> line, rest |-> rest, fields |-> Split(rest, <<>>)]

\* 'p cnf ', two numerals in range with blanks and tabs between them and
\* possibly behind them, and a new line.
FlexHeader(f) ==
  LET h == HeaderFields(f)
  IN  /\ h.end # 0
      /\ Len(h.line) >= 7
      /\ SubSeq(h.line, 1, 6) = PCNF
      /\ h.line[7] \in Digit
      /\ \A i \in 1..Len(h.rest) : h.rest[i] \in Digit \cup {" ", "\t"}
      /\ Len(h.fields) = 2
      /\ IsNumeral(h.fields[1]) /\ NumLeq(h.fields[1], IntMaxNumeral)
      /\ IsNumeral(h.fields[2]) /\ NumLeq(h.fields[2], SizeMaxNumeral)

\* No error up to the new line of the header, and behind it the two
\* counts are the numbers the two numerals denote.
HeaderTaken(f) ==
  LET h == HeaderFields(f)
  IN  /\ ParseFailed => pos > h.end \/ (pos = h.end /\ eofseen)
      /\ pos >= h.end =>
           /\ variables = NumValue(h.fields[1])
           /\ U64Decimal(specified_clauses) = h.fields[2]

\* C14: a header 'p cnf V M' whose two numerals are separated by any run
\* of blanks and tabs and followed by blanks or tabs and a new line is
\* accepted, with V and M as the two counts.
C14_HeaderAccepted == FlexHeader(file) => HeaderTaken(file)

\* The same for the headers with a blank directly behind V.
HeaderAcceptedBehindBlank ==
  FlexHeader(file)
    /\ HeaderFields(file).rest[Len(HeaderFields(file).fields[1]) + 1] = " "
  => HeaderTaken(file)

\* An argument that is not an option.
Positional(a) == a = <<>> \/ a[1] # "-"

KnownOptions ==
  {OptH, OptVersion, OptN, OptNoWitness, OptQ, OptQuiet, OptV, OptVerbose,
   OptL, OptLog}

\* The argument at i ends the run: the usage or the version is asked for,
\* or it is an option there is not (logging in a program compiled without
\* it included), or a second name of a file.
Decisive(i) ==
  \/ argv[i] \in {OptH, OptVersion}
  \/ ~Positional(argv[i]) /\ argv[i] \notin KnownOptions
  \/ argv[i] \in {OptL, OptLog} /\ ndebug
  \/ Positional(argv[i]) /\ \E j \in 1..(i - 1) : Positional(argv[j])

FirstDecisive ==
  LET S == {i \in 1..Len(argv) : Decisive(i)}
  IN  IF S = {} THEN 0 ELSE CHOOSE i \in S : \A k \in S : i <= k

\* C15: the arguments are read from left to right up to the first that
\* decides: at '-h' or '--version' the process exits with 0, at an option
\* there is not or at a second name with 1, in each case without reading a
\* later argument, creating the engine or touching the input; without
\* such an argument the loop reads every argument and does not exit.
C15_FirstDecisive ==
  LET d == FirstDecisive
  IN  /\ argi <= (IF d = 0 THEN Len(argv) + 1 ELSE d)
      /\ d # 0 =>
           /\ pc \in {"args", "exit"}
           /\ solver = "null" /\ pos = 0 /\ close_file = 0
           /\ handler = [s \in Watched |-> SIG_DFL]
           /\ pc = "exit" =>
                /\ argi = d
                /\ exitcode = (IF argv[d] \in {OptH, OptVersion} THEN 0 ELSE 1)
                /\ (err = "") = (exitcode = 0)
      /\ d = 0 /\ pc # "args" => argi = Len(argv) + 1

\* '-h' or '--version' has ended the run with 0 in front of an option
\* there is not.
C15_Reached ==
  /\ pc = "exit" /\ exitcode = 0
  /\ argi < Len(argv)
  /\ \E i \in (argi + 1)..Len(argv) : argv[i] = <<"-", "x">>

\* The statements of 'catch_signal' in the order of the text.
HandlerOrder ==
  {<<"check", "set">>, <<"check", "return">>, <<"set", "print">>,
   <<"print", "reset">>, <<"reset", "raise">>, <<"raise", "return">>}

\* The step is the 'raise (sig)' of the running handler.
RaiseStep ==
  /\ frames # <<>> /\ Top.hpc = "raise" /\ Deliverable = {}
  /\ delivered' = delivered
  /\ <<frames, pending, killed>>' # <<frames, pending, killed>>

\* C16: a handler that has found 'caught_signal' clear runs its
\* statements in the order of the text; when it raises, every watched
\* signal has its recorded disposition again, the signal raised is the one
\* it was called with, and it has printed its diagnostics unless the
\* program is quiet, which prints none at all.
C16_RestoreThenRaise ==
  [][/\ quiet => diag' = 0
     /\ \A i \in 1..Len(frames) :
          i <= Len(frames') /\ frames'[i] # frames[i] =>
            /\ frames'[i].sig = frames[i].sig
            /\ \/ frames'[i].hpc = frames[i].hpc
               \/ <<frames[i].hpc, frames'[i].hpc>> \in HandlerOrder
     /\ RaiseStep =>
          /\ handler = saved
          /\ caught_signal = Top.sig
          /\ ~quiet => diag >= 1
          /\ killed' \in {0, Top.sig}
          /\ pending' \in {pending, pending \cup {Top.sig}}
          /\ handler' = handler]_vars

\* A quiet program was sent one signal and was terminated by the 'raise'
\* of its handler.
C16_Reached ==
  /\ quiet /\ delivered = 1 /\ diag = 0
  /\ frames # <<>> /\ Top.hpc = "return"
  /\ killed = Top.sig /\ caught_signal = killed
  /\ handler = saved

\* The bytes 'getc' has returned.
Consumed == SubSeq(file, 1, pos)

\* In the body of f a digit is directly followed by 'c'.
Glued(f) ==
  /\ HeaderFields(f).end # 0
  /\ \E i \in (HeaderFields(f).end + 1)..(Len(f) - 1) :
       f[i] \in Digit /\ f[i + 1] = "c"

\* The body of f ends inside a comment.
InComment(f) ==
  LET b == StripComments(RefHeader(f).body)
  IN  b # <<>> /\ b[Len(b)] = "#"

\* C17: when a literal was directly followed by 'c', then wherever the
\* parser is between two tokens the values forwarded are exactly the
\* literals of the bytes read, comments from their 'c' to their new line
\* left out, each in the range and each zero counted as a clause; while
\* the parser reads a comment no new line has ended it.
C17_GluedComment ==
  Glued(Consumed) /\ err = "" =>
    /\ pc \in {"body", "end", "close", "solve"} =>
         /\ ~InComment(Consumed)
         /\ LiteralsOnly(Consumed)
         /\ added = RefLits(Consumed)
         /\ parsed_clauses = Zeros(added)
         /\ \A i \in 1..Len(added) : abs(added[i]) <= variables
    /\ pc = "bcomment" => InComment(Consumed)

\* The input with '1c' and '0c' is parsed.
C17_Reached ==
  ParseDone /\ Glued(Consumed) /\ added = <<1, -2, 0, 0>> /\ parsed_clauses = 2

ClauseOverflow ==
  {"way too many clauses specified", "too many clauses specified"}

LitOverflow == {"number way too large", "number too large"}

\* 'p cnf ', a numeral up to INT_MAX, a blank, blanks and tabs, a second
\* numeral of any size, blanks and tabs, and a new line.
TwoNumerals(f) ==
  LET h == HeaderFields(f)
  IN  /\ h.end # 0
      /\ Len(h.line) >= 7
      /\ SubSeq(h.line, 1, 6) = PCNF
      /\ h.line[7] \in Digit
      /\ \A i \in 1..Len(h.rest) : h.rest[i] \in Digit \cup {" ", "\t"}
      /\ Len(h.fields) = 2
      /\ IsNumeral(h.fields[1]) /\ NumLeq(h.fields[1], IntMaxNumeral)
      /\ h.rest[Len(h.fields[1]) + 1] = " "
      /\ IsNumeral(h.fields[2])

\* The digits of the last token of the bytes read, <<>> if there is none.
LastMagnitude ==
  LET ts == RefTokens(Consumed)
      t == IF ts = <<>> THEN <<>> ELSE ts[Len(ts)]
  IN  IF t # <<>> /\ t[1] = "-" THEN Tail(t) ELSE t

\* C18: no accumulation of digits leaves the range of its type.  The
\* number of clauses of a header is taken with the value of its numeral
\* up to 2^64 - 1 and fails with one of the two errors of too many
\* clauses above; between two tokens the values forwarded are the
\* literals read, so a magnitude up to INT_MAX is exact; a magnitude above
\* INT_MAX fails with one of the two errors of a number too large, and
\* 'lit' is never INT_MIN.
C18_NeverWraps ==
  /\ ~ovf
  /\ lit # INT_MIN /\ lit >= -INT_MAX /\ lit <= INT_MAX
  /\ TwoNumerals(file) =>
       IF NumLeq(HeaderFields(file).fields[2], SizeMaxNumeral)
         THEN HeaderTaken(file)
         ELSE /\ pos < HeaderFields(file).end
              /\ pc = "exit" => err \in ClauseOverflow
  /\ err \in ClauseOverflow =>
       /\ TwoNumerals(file)
       /\ NumLess(SizeMaxNumeral, HeaderFields(file).fields[2])
  /\ pc \in {"body", "end", "close", "solve"} /\ err = "" =>
       /\ LiteralsOnly(Consumed)
       /\ added = RefLits(Consumed)
  /\ IsNumeral(LastMagnitude) /\ NumLess(IntMaxNumeral, LastMagnitude) =>
       ParseFailed /\ err \in LitOverflow
  /\ err \in LitOverflow =>
       IsNumeral(LastMagnitude) /\ NumLess(IntMaxNumeral, LastMagnitude)

\* A header with 2^64 - 1 clauses has been read.
C18_Reached ==
  /\ pc = "body" /\ specified_clauses = MAX_SIZE_T
  /\ HeaderFields(file).fields[2] = SizeMaxNumeral

\* A literal of the magnitude INT_MAX has been forwarded.
C18_LiteralReached == \E i \in 1..Len(added) : added[i] = -INT_MAX

ZeroInVariables == "invalid digit after '0' while parsing maximum variable"
ZeroInClauses == "invalid digit after '0' while parsing number of clauses"
ZeroInLiteral == "invalid digit after '0' in number"

\* The last byte read is a digit behind a '0' that begins a numeral
\* outside of a comment.
DigitBehindZero ==
  /\ pos >= 3
  /\ file[pos] \in Digit /\ file[pos - 1] = "0" /\ file[pos - 2] \notin Digit
  /\ HeaderStart(Consumed, 1) # 0
  /\ ~InComment(Consumed)

\* Where the last byte read is: in the first or the second numeral of the
\* header line, or behind that line.
Position ==
  LET hs == HeaderStart(Consumed, 1)
      he == IF hs = 0 THEN 0 ELSE LineEnd(Consumed, hs)
      fs == Split(SubSeq(Consumed, hs + 6, pos), <<>>)
  IN  IF he # 0 THEN ZeroInLiteral
      ELSE IF Len(fs) <= 1 THEN ZeroInVariables
      ELSE ZeroInClauses

\* C19: a digit directly behind a '0' that begins a numeral is a parse
\* error with the message of the position, in the number of variables, in
\* the number of clauses and in a literal, and these errors have no other
\* cause; between two tokens every token '0' and '-0' read has been
\* forwarded as the value 0, and the clauses counted are the zeros
\* forwarded.
C19_ZeroRules ==
  /\ DigitBehindZero => ParseFailed /\ err = Position
  /\ err \in {ZeroInVariables, ZeroInClauses, ZeroInLiteral} =>
       DigitBehindZero /\ err = Position
  /\ pc \in {"body", "end", "close", "solve"} /\ err = "" =>
       /\ Len(added) = Len(RefTokens(Consumed))
       /\ \A i \in 1..Len(added) :
            RefTokens(Consumed)[i] \in {<<"0">>, <<"-", "0">>} <=> added[i] = 0
       /\ parsed_clauses = Zeros(added)

\* A token '-0' has been forwarded and counted.
C19_Reached ==
  /\ pc = "body" /\ err = ""
  /\ RefTokens(Consumed) # <<>>
  /\ RefTokens(Consumed)[Len(RefTokens(Consumed))] = <<"-", "0">>
  /\ added[Len(added)] = 0 /\ parsed_clauses = 1

\* The new lines among the bytes read.
NewLines == Cardinality({i \in 1..pos : file[i] = "\n"})

\* A carriage return read is not followed by a new line.
LoneCR ==
  \E i \in 1..pos : file[i] = "\r" /\ (i = pos \/ file[i + 1] # "\n")

BodyTokens(f) ==
  LET b == StripComments(RefHeader(f).body)
  IN  Split([i \in 1..Len(b) |-> IF b[i] = "#" THEN "\n" ELSE b[i]], <<>>)

\* The literals in front of the first token of the body of f that is
\* none.
LeadingLits(f) ==
  LET ts == BodyTokens(f)
      B == {i \in 1..Len(ts) : ~IsLiteral(ts[i])}
      n == IF B = {} THEN Len(ts) ELSE (CHOOSE i \in B : \A k \in B : i <= k) - 1
  IN  [i \in 1..n |-> RefValue(ts[i])]

\* C21: in every state of a parse, of those that fail later too, the
\* values passed to 'satch_add' are a beginning of the literals of the
\* body, each of a magnitude up to V; at most M of them are zero and none
\* follows the M-th zero; none is passed before the new line of the
\* header line is read and the two counts are set.
C21_ForwardedPrefix ==
  /\ Len(added) <= Len(LeadingLits(file))
  /\ added = SubSeq(LeadingLits(file), 1, Len(added))
  /\ \A i \in 1..Len(added) : abs(added[i]) <= variables
  /\ ~U64Less(specified_clauses, U64OfInt(Zeros(added)))
  /\ \A i \in 1..Len(added) :
       U64Less(U64OfInt(Zeros(SubSeq(added, 1, i - 1))), specified_clauses)
  /\ added # <<>> =>
       /\ HeaderFields(Consumed).end # 0
       /\ pc \in {"body", "neg", "bcomment", "ldigits", "end", "close",
                  "solve", "exit"}
  /\ pc \in {"start", "hcomment", "magic", "vskip", "vdigits", "cskip",
             "cdigits", "htrail"} => added = <<>>

\* A parse that has forwarded a whole clause fails.
C21_Reached ==
  /\ ParseFailed /\ err # MoreClausesError
  /\ Len(added) >= 2 /\ added[Len(added)] = 0
  /\ Len(LeadingLits(file)) > Len(added)

\* 'catch_signal' is the disposition of a watched signal or is running.
Catching == frames # <<>> \/ \E s \in Watched : handler[s] = CATCH

\* C22: whenever 'catch_signal' is installed for a watched signal or is
\* running, the engine has been created and has not been released, so
\* the 'satch_statistics (solver)' of the handler gets an engine that is
\* there.
C22_EngineAlive == Catching => solver = "init"

\* A handler that interrupted the restoration of the handlers has
\* printed the statistics.
C22_Reached ==
  /\ pc = "restore" /\ si > 1
  /\ frames # <<>> /\ Top.hpc = "reset" /\ ~quiet /\ diag = 1
  /\ solver = "init"

===========================================================================
